---- MODULE Spec2Model ----
(***************************************************************************)
(* Model of the mean-reversion trading engine: the shared RiskGuard        *)
(* ledger (app/risk_guard.py), the tick-to-candle aggregation of           *)
(* MeanReversionEngine (app/engine.py) and the per-symbol engine cycle.    *)
(*                                                                         *)
(* Money amounts and percentages are integers here; the prices used are    *)
(* chosen so that every pnl percentage the engine computes is integral.    *)
(***************************************************************************)
EXTENDS Integers, Sequences, FiniteSets, TLC

(***************************************************************************)
(* Bounds of the model.                                                    *)
(***************************************************************************)
\* wall-clock days the model runs through (days 0..MaxDay)
MaxDay == 1
\* largest amount passed to allocate_risk / register_trade(risk_used)
MaxAmt == 2
\* largest |pnl| passed to register_trade in the ledger specification
MaxPnl == 2
\* register_trade is not called when trades has reached this count
TradeBound == 3
\* |realized| is kept within this bound by the guards
RealizedBound == 4
\* the run counter of successful allocations saturates here
RunCap == 4

\* capacity of the tick buffer; stands for deque(maxlen=60), engine.py:37
TickCap == 3
\* number of candles kept; stands for the 500 of engine.py:85-86
CandleCap == 3
\* candles needed before the strategy is evaluated; stands for the 100 of
\* engine.py:89
MinCandles == 2
\* ticks delivered in all in the aggregation specification
MaxTicks == 5
\* trades in one publicTrade message
MaxBatch == 2
\* ticks delivered to each engine in the engine specification
MaxEngineTicks == 3

Amounts == 0..MaxAmt
Pnls == (0 - MaxPnl)..MaxPnl

\* configurations RiskGuard is constructed with in the ledger specification
DrawdownCfgs == {-2, 2}
ProfitLockCfgs == {3}
MaxTradesCfgs == {1, 2}
MaxTotalRiskCfgs == {3}

\* the traded symbols (settings["symbols"]), one engine each
Symbols == {"BTCUSDT", "ETHUSDT"}
\* the symbol whose aggregation is studied on its own
AggSymbol == "BTCUSDT"

\* trade prints of the aggregation specification (T in ms, price p, volume
\* v): the three of the spec's example in minute 0 and three more in minute 60
Ticks ==
    {[T |-> 1000, p |-> 100, v |-> 1], [T |-> 30000, p |-> 105, v |-> 2],
     [T |-> 59000, p |-> 95, v |-> 1], [T |-> 60000, p |-> 100, v |-> 1],
     [T |-> 90500, p |-> 105, v |-> 2], [T |-> 119999, p |-> 95, v |-> 1]}
Batches == UNION {[1..n -> Ticks] : n \in 1..MaxBatch}

\* trade prints of the engine specification; with these prices every
\* (price - entry) / entry * 100 is an integer
EngineTickTimes == {1000, 61000}
EnginePrices == {1, 2}
EngineTicks == [T : EngineTickTimes, p : EnginePrices, v : {1}]
\* wallet balances, scaled so that balance * risk_per_trade = balance
Balances == {0, 1}
Signals == {"long", "short", "none"}

\* candle matrices of the strategy specification: at most MaxBars rows
MaxBars == 6
\* MeanReversionSignal's constructor arguments, scaled down from 20 and 14
\* (a window of 6 is the smallest in which a close can lie more than two
\* population deviations away from the window's mean)
window_bb == 6
period_rsi == 2
period_atr == 2
period_adx == 2
\* rows <<ts, column 1, column 2, column 3, column 4, volume>> of the
\* strategy specification: a quiet bar, that bar with column 3 far below
\* and far above, and a bar whose columns 1 and 2 moved up
SigRows ==
    {<<0, 5, 4, 5, 5, 0>>, <<0, 5, 4, 1, 1, 0>>, <<0, 5, 4, 9, 9, 0>>,
     <<0, 6, 5, 5, 5, 0>>}
\* entry prices handed to should_exit
EntryPrices == {1, 5, 9}
\* longest series, largest window and largest period the indicator
\* functions are called with on their own
MaxSeries == 6
MaxWindow == 4
MaxPeriod == 2
Sides == {"long", "short"}

Abs(x) == IF x < 0 THEN 0 - x ELSE x
Max(a, b) == IF a >= b THEN a ELSE b
Min(a, b) == IF a <= b THEN a ELSE b

VARIABLES
    \* wall clock: the value of datetime.date.today()
    today,
    \* RiskGuard state: [date, trades, realized, unrealized_risk]
    rg,
    \* RiskGuard constructor arguments
    max_daily_drawdown, profit_lock, max_trades, max_total_risk,
    \* the last RiskGuard call of the ledger specification:
    \* [op, a, b, ret, rolled]; rolled tells whether _check_new_day reset the
    \* guard at the start of that call
    lastCall,
    \* number of consecutive successful allocate_risk calls made on a freshly
    \* reset RiskGuard with no other call in between (-1: not in such a run)
    allocRun,
    \* per symbol: MeanReversionEngine.ticks, the bounded tick buffer
    ticks,
    \* per symbol: MeanReversionEngine.candles, rows
    \* <<ts, open, high, low, close, volume>> (numpy column k is element k+1)
    candles,
    \* every tick the studied symbol's _on_trade has appended, in order
    allTicks,
    \* the last operation of the aggregation specification: [op, trimmed];
    \* trimmed tells whether that pass cut the series down to the cap
    lastStep,
    \* per symbol: MeanReversionEngine.position ([side, qty]; side "none"
    \* stands for None)
    position,
    \* per symbol: MeanReversionEngine.entry_price
    entry_price,
    \* per symbol: where the engine's _run_loop task is suspended
    pc,
    \* per symbol: the locals of the suspended coroutine
    \* [side, close, price, qty, risk]
    ctx,
    \* per symbol: the last order handed to Exchange.create_order
    \* [kind, held]; held tells whether a Position was held at that moment
    lastOrder,
    \* per symbol: Position records created and not yet cleared
    nheld,
    \* per symbol: the risk amount allocate_risk reserved for the entry that
    \* is in flight or for the Position that is held, 0 when there is none
    reserved,
    \* per symbol: ticks delivered so far (engine specification)
    nticks,
    \* settings: whether qty_step is an int ("int") or a float ("float")
    qty_step,
    \* the candle matrix handed to the indicator library and to
    \* SignalStrategy (rows of six columns, numpy column k is element k+1)
    bars,
    \* the last call on that matrix and what it returned
    out,
    \* per symbol: how the engine's last cycle went: "ok", "io_error" (an
    \* exchange call raised), "type_error" (round raised), or
    \* "exit_unchecked" (a Position was held, should_exit would have
    \* triggered on the cycle's candles, and _evaluate did not call it)
    lastCycle,
    \* per symbol: the parity of the iterations of _run_loop started so far,
    \* counted only in the loop specification
    beat,
    \* whether iterations are counted (the loop specification)
    live

rgVars == <<rg, max_daily_drawdown, profit_lock, max_trades, max_total_risk>>
ledgerVars == <<today, rg, max_daily_drawdown, profit_lock, max_trades,
                max_total_risk, lastCall, allocRun>>
restVars == <<bars, out, live>>
loopVars == <<lastCycle, beat>>
engVars == <<position, entry_price, pc, ctx, lastOrder, nheld, reserved, nticks,
             qty_step, restVars, loopVars>>
aggVars == <<ticks, candles, allTicks, lastStep, engVars>>
cfgVars == <<max_daily_drawdown, profit_lock, max_trades, max_total_risk,
             qty_step, restVars>>
vars == <<today, rg, max_daily_drawdown, profit_lock, max_trades,
          max_total_risk, lastCall, allocRun, ticks, candles, allTicks,
          lastStep, position, entry_price, pc, ctx, lastOrder, nheld, reserved,
          nticks, qty_step, bars, out, lastCycle, beat, live>>

(***************************************************************************)
(* RiskGuard (app/risk_guard.py)                                           *)
(***************************************************************************)
NoCall == [op |-> "none", a |-> 0, b |-> 0, ret |-> TRUE, rolled |-> FALSE]
Call(op, a, b, ret, rolled) ==
    [op |-> op, a |-> a, b |-> b, ret |-> ret, rolled |-> rolled]

\* RiskGuard.reset: the state of a guard reset on day d
reset(d) == [date |-> d, trades |-> 0, realized |-> 0, unrealized_risk |-> 0]

\* _check_new_day that moves the date on but forgets the counters
check_new_day_stale(s, d) == IF d # s.date THEN [s EXCEPT !.date = d] ELSE s

\* RiskGuard._check_new_day
check_new_day(s, d) == IF d # s.date THEN reset(d) ELSE s

\* RiskGuard.register_trade: the state after the call
register_trade(s, d, pnl, risk_used) ==
    LET c == check_new_day(s, d) IN
    [c EXCEPT !.realized = c.realized + pnl,
              !.trades = c.trades + 1,
              !.unrealized_risk = Max(c.unrealized_risk - risk_used, 0)]

\* allocate_risk without the max_total_risk ceiling
allocate_risk_noceil(s, d, risk) ==
    LET c == check_new_day(s, d) IN
    IF c.trades >= max_trades
    THEN [st |-> c, ret |-> FALSE]
    ELSE [st |-> [c EXCEPT !.unrealized_risk = c.unrealized_risk + risk],
          ret |-> TRUE]

\* allocate_risk that still admits a call when trades = max_trades
allocate_risk_offbyone(s, d, risk) ==
    LET c == check_new_day(s, d) IN
    IF c.trades > max_trades \/ c.unrealized_risk + risk > max_total_risk
    THEN [st |-> c, ret |-> FALSE]
    ELSE [st |-> [c EXCEPT !.unrealized_risk = c.unrealized_risk + risk],
          ret |-> TRUE]

\* RiskGuard.allocate_risk: [st |-> state after the call, ret |-> result]
allocate_risk(s, d, risk) ==
    LET c == check_new_day(s, d) IN
    IF c.trades >= max_trades \/ c.unrealized_risk + risk > max_total_risk
    THEN [st |-> c, ret |-> FALSE]
    ELSE [st |-> [c EXCEPT !.unrealized_risk = c.unrealized_risk + risk],
          ret |-> TRUE]

\* is_trading_allowed with an exclusive drawdown bound
is_trading_allowed_strict(s, d) ==
    LET c == check_new_day(s, d) IN
    IF c.realized < 0 - Abs(max_daily_drawdown)
    THEN [st |-> c, ret |-> FALSE]
    ELSE IF c.realized >= profit_lock
         THEN [st |-> c, ret |-> FALSE]
         ELSE [st |-> c, ret |-> TRUE]

\* RiskGuard.is_trading_allowed: [st |-> state after the call, ret |-> result]
is_trading_allowed(s, d) ==
    LET c == check_new_day(s, d) IN
    IF c.realized <= 0 - Abs(max_daily_drawdown)
    THEN [st |-> c, ret |-> FALSE]
    ELSE IF c.realized >= profit_lock
         THEN [st |-> c, ret |-> FALSE]
         ELSE [st |-> c, ret |-> TRUE]

\* the run of successful allocations after a call (history for the ledger)
RunAfter(pre, d, ret) ==
    IF ~ret THEN -1
    ELSE IF d # pre.date THEN 1
    ELSE IF allocRun >= 0 THEN Min(allocRun + 1, RunCap)
    ELSE IF pre = reset(d) THEN 1
    ELSE -1

(***************************************************************************)
(* Tick aggregation (app/engine.py)                                        *)
(***************************************************************************)
\* the last n elements of a sequence (a deque with maxlen n, a [-n:] slice)
LastN(q, n) == IF Len(q) <= n THEN q ELSE SubSeq(q, Len(q) - n + 1, Len(q))
\* the first n elements of a sequence
FirstN(q, n) == IF Len(q) <= n THEN q ELSE SubSeq(q, 1, n)

RECURSIVE SeqMax(_)
SeqMax(q) == IF Len(q) = 1 THEN q[1] ELSE Max(q[1], SeqMax(Tail(q)))
RECURSIVE SeqMin(_)
SeqMin(q) == IF Len(q) = 1 THEN q[1] ELSE Min(q[1], SeqMin(Tail(q)))
RECURSIVE SeqSum(_)
SeqSum(q) == IF q = <<>> THEN 0 ELSE q[1] + SeqSum(Tail(q))

\* int(t["T"] // 1000) - (int(t["T"] // 1000) % 60)
MinuteOf(t) == (t.T \div 1000) - ((t.T \div 1000) % 60)

\* deque.append on a deque(maxlen=TickCap), once per trade of the message
append_ticks(buf, batch) == LastN(buf \o batch, TickCap)

\* _build_candle that takes the close from the first trade of the minute
candle_of_firstclose(buf) ==
    LET minute == MinuteOf(buf[Len(buf)])
        minute_ticks == SelectSeq(buf, LAMBDA t : MinuteOf(t) = minute)
        prices == [i \in 1..Len(minute_ticks) |-> minute_ticks[i].p]
        vol == SeqSum([i \in 1..Len(minute_ticks) |-> minute_ticks[i].v])
    IN  <<minute, prices[1], SeqMax(prices), SeqMin(prices), prices[1], vol>>

\* the candle _build_candle computes from the buffer (buffer not empty)
candle_of(buf) ==
    LET minute == MinuteOf(buf[Len(buf)])
        minute_ticks == SelectSeq(buf, LAMBDA t : MinuteOf(t) = minute)
        prices == [i \in 1..Len(minute_ticks) |-> minute_ticks[i].p]
        vol == SeqSum([i \in 1..Len(minute_ticks) |-> minute_ticks[i].v])
    IN  <<minute, prices[1], SeqMax(prices), SeqMin(prices),
          prices[Len(prices)], vol>>

\* the series after the replace-or-append of _build_candle, before the cap
stored_candles(buf, cs) ==
    IF buf = <<>> THEN cs
    ELSE IF SelectSeq(buf, LAMBDA t : MinuteOf(t) = MinuteOf(buf[Len(buf)]))
            = <<>> THEN cs
    ELSE LET candle == candle_of(buf)
         IN  IF cs # <<>> /\ cs[Len(cs)][1] = candle[1]
             THEN [cs EXCEPT ![Len(cs)] = candle]
             ELSE Append(cs, candle)

\* _build_candle that keeps the first CandleCap candles instead of the last
build_candle_keepfirst(buf, cs) ==
    LET stored == stored_candles(buf, cs)
    IN  IF Len(stored) > CandleCap THEN FirstN(stored, CandleCap) ELSE stored

\* MeanReversionEngine._build_candle: the candle series after the pass
build_candle(buf, cs) ==
    LET stored == stored_candles(buf, cs)
    IN  IF Len(stored) > CandleCap THEN LastN(stored, CandleCap) ELSE stored

(***************************************************************************)
(* Floating point.  A float is an integer count of 1/Scale units; NaN, Inf *)
(* and NegInf are the three special values.  Every operation rounds down   *)
(* to the unit, and follows IEEE 754 on the special values: NaN            *)
(* propagates, comparisons with NaN are false, x/0 is an infinity and 0/0  *)
(* is NaN (numpy warns and does not raise).                                *)
(***************************************************************************)
Scale == 10 * 10
Inf == 1024 * 1024 * 1024
NegInf == 0 - Inf
NaN == 0 - Inf - 7
\* the 1e-10 added to the denominators of rsi and adx: the smallest
\* positive float
Eps == 1

IsNaN(x) == x = NaN
Finite(x) == x # NaN /\ x # Inf /\ x # NegInf
FromInt(n) == n * Scale
FNeg(a) == IF a = NaN THEN NaN ELSE 0 - a
FAbs(a) == IF a = NaN THEN NaN ELSE Abs(a)
FAdd(a, b) ==
    IF a = NaN \/ b = NaN THEN NaN
    ELSE IF (a = Inf /\ b = NegInf) \/ (a = NegInf /\ b = Inf) THEN NaN
    ELSE IF a = Inf \/ b = Inf THEN Inf
    ELSE IF a = NegInf \/ b = NegInf THEN NegInf
    ELSE a + b
FSub(a, b) == FAdd(a, FNeg(b))
\* k * a for a whole number k >= 0
FTimes(k, a) ==
    IF a = NaN THEN NaN
    ELSE IF ~Finite(a) THEN (IF k = 0 THEN NaN ELSE a)
    ELSE k * a
\* a * b
FMul(a, b) ==
    IF a = NaN \/ b = NaN THEN NaN
    ELSE IF ~Finite(a) \/ ~Finite(b)
         THEN (IF a = 0 \/ b = 0 THEN NaN
               ELSE IF (a > 0) = (b > 0) THEN Inf ELSE NegInf)
    ELSE (a * b) \div Scale
\* a / k for a whole number k > 0
FOver(a, k) == IF ~Finite(a) THEN a ELSE a \div k
\* a / b
FDiv(a, b) ==
    IF a = NaN \/ b = NaN THEN NaN
    ELSE IF ~Finite(a) THEN (IF ~Finite(b) THEN NaN
                             ELSE IF (a > 0) = (b >= 0) THEN Inf ELSE NegInf)
    ELSE IF ~Finite(b) THEN 0
    ELSE IF b = 0 THEN (IF a = 0 THEN NaN ELSE IF a > 0 THEN Inf ELSE NegInf)
    ELSE (a * Scale) \div b
\* numpy.maximum
FMax(a, b) == IF a = NaN \/ b = NaN THEN NaN ELSE Max(a, b)
FLt(a, b) == a # NaN /\ b # NaN /\ a < b
FLe(a, b) == a # NaN /\ b # NaN /\ a <= b
FGt(a, b) == a # NaN /\ b # NaN /\ a > b
FGe(a, b) == a # NaN /\ b # NaN /\ a >= b

\* the largest r in lo..hi with r * r <= n
RECURSIVE SqrtSearch(_, _, _)
SqrtSearch(n, lo, hi) ==
    IF lo >= hi THEN lo
    ELSE LET mid == (lo + hi + 1) \div 2
         IN  IF mid * mid <= n THEN SqrtSearch(n, mid, hi)
             ELSE SqrtSearch(n, lo, mid - 1)
\* numpy's square root of a float a >= 0
FSqrt(a) ==
    IF a = NaN \/ a < 0 THEN NaN
    ELSE IF a = Inf THEN Inf
    ELSE SqrtSearch(a * Scale, 0, Min(a * Scale, 40000))

\* F applied to the value of v, computed once
With(v, F(_)) == CHOOSE r \in {F(x) : x \in {v}} : TRUE
\* an array given as a function on 1..n, with every entry computed
Arr(f) == SubSeq(f, 1, Len(f))
RECURSIVE FSum(_)
FSum(xs) == IF xs = <<>> THEN 0 ELSE FAdd(Head(xs), FSum(Tail(xs)))
\* ndarray.mean of a non-empty array
Mean(xs) == FOver(FSum(xs), Len(xs))
\* numpy.nanmean: the mean of the entries that are not NaN, NaN if none is
NanMean(xs) ==
    LET kept == SelectSeq(xs, LAMBDA x : x # NaN)
    IN  IF kept = <<>> THEN NaN ELSE Mean(kept)
\* ndarray.std: the population standard deviation
PopStd(xs) ==
    With(Mean(xs), LAMBDA m :
        FSqrt(Mean(Arr([j \in 1..Len(xs) |->
                           FMul(FSub(xs[j], m), FSub(xs[j], m))]))))
\* arr[a:b] of numpy for 0-based a <= b <= len: elements a+1..b
Slice(arr, a, b) == SubSeq(arr, a + 1, b)
\* column k (0-based) of a candle matrix, as a float array
Column(m, k) == Arr([i \in 1..Len(m) |-> FromInt(m[i][k + 1])])

(***************************************************************************)
(* Indicator library (app/indicators.py).  Arrays are sequences; numpy     *)
(* index i is element i+1.  X_raises tells the inputs on which X raises.   *)
(***************************************************************************)
\* _rolling_window raises ValueError("window too large")
rolling_window_raises(arr, window) == window > Len(arr)

\* a moving average that averages what there is while the window is not full
sma_partial(arr, window) ==
    Arr([i \in 1..Len(arr) |->
            Mean(Slice(arr, Max(i - window, 0), i))])

\* sma
sma(arr, window) ==
    Arr([i \in 1..Len(arr) |->
            IF i < window THEN NaN ELSE Mean(Slice(arr, i - window, i))])

\* std
std(arr, window) ==
    Arr([i \in 1..Len(arr) |->
            IF i < window THEN NaN ELSE PopStd(Slice(arr, i - window, i))])

\* bollinger_bands: <<lower, ma, upper>>
bollinger_bands(close, window, num_std) ==
    With(sma(close, window), LAMBDA ma :
    With(std(close, window), LAMBDA sd :
        <<Arr([i \in 1..Len(close) |->
                  FSub(ma[i], FTimes(num_std, sd[i]))]),
          ma,
          Arr([i \in 1..Len(close) |->
                  FAdd(ma[i], FTimes(num_std, sd[i]))])>>))

\* the Wilder average of rsi and atr: NaN below index period, the mean of
\* x[1:period+1] at index period, the smoothed value afterwards
RECURSIVE wilder_loop(_, _, _)
wilder_loop(x, period, avg) ==
    LET i == Len(avg) + 1
    IN  IF i > Len(x) THEN avg
        ELSE With(Append(avg,
                    IF i <= period THEN NaN
                    ELSE IF i = period + 1
                         THEN Mean(Slice(x, 1, period + 1))
                    ELSE FOver(FAdd(FTimes(period - 1, avg[i - 1]), x[i]),
                               period)),
                  LAMBDA next : wilder_loop(x, period, next))
wilder(x, period) == wilder_loop(x, period, <<>>)

\* rsi and atr raise IndexError at avg[period] when the series has no such
\* index (and at close[0] when it is empty)
wilder_raises(x, period) == Len(x) <= period

\* avg_loss of rsi
rsi_avg_loss(close, period) ==
    With(Arr([i \in 1..Len(close) |->
                 IF i = 1 THEN 0 ELSE FSub(close[i], close[i - 1])]),
         LAMBDA diff :
        wilder(Arr([i \in 1..Len(diff) |->
                       IF FGt(diff[i], 0) THEN 0 ELSE FNeg(diff[i])]),
               period))

\* rsi with avg_gain / avg_loss, the 1e-10 left out of the denominator
rsi_no_eps(close, period) ==
    With(Arr([i \in 1..Len(close) |->
                 IF i = 1 THEN 0 ELSE FSub(close[i], close[i - 1])]),
         LAMBDA diff :
    With(wilder(Arr([i \in 1..Len(diff) |->
                        IF FLt(diff[i], 0) THEN 0 ELSE diff[i]]), period),
         LAMBDA avg_gain :
    With(rsi_avg_loss(close, period), LAMBDA avg_loss :
        Arr([i \in 1..Len(diff) |->
                LET rs == FDiv(avg_gain[i], avg_loss[i])
                IN  IF i <= period + 1 THEN NaN
                    ELSE FSub(FromInt(100),
                              FDiv(FromInt(100), FAdd(FromInt(1), rs)))]))))

\* rsi
rsi(close, period) ==
    With(Arr([i \in 1..Len(close) |->
                 IF i = 1 THEN 0 ELSE FSub(close[i], close[i - 1])]),
         LAMBDA diff :
    With(wilder(Arr([i \in 1..Len(diff) |->
                        IF FLt(diff[i], 0) THEN 0 ELSE diff[i]]), period),
         LAMBDA avg_gain :
    With(wilder(Arr([i \in 1..Len(diff) |->
                        IF FGt(diff[i], 0) THEN 0 ELSE FNeg(diff[i])]),
                period),
         LAMBDA avg_loss :
        Arr([i \in 1..Len(diff) |->
                LET rs == FDiv(avg_gain[i], FAdd(avg_loss[i], Eps))
                IN  IF i <= period + 1 THEN NaN
                    ELSE FSub(FromInt(100),
                              FDiv(FromInt(100), FAdd(FromInt(1), rs)))]))))

\* a true range that is the move of the high from the previous close
true_range_signed(high, low, close) ==
    Arr([i \in 1..Len(close) |->
            LET prev_close == IF i = 1 THEN close[1] ELSE close[i - 1]
            IN  FSub(high[i], prev_close)])

\* the true range of atr
true_range(high, low, close) ==
    Arr([i \in 1..Len(close) |->
            LET prev_close == IF i = 1 THEN close[1] ELSE close[i - 1]
            IN  FMax(FSub(high[i], low[i]),
                     FMax(FAbs(FSub(high[i], prev_close)),
                          FAbs(FSub(low[i], prev_close))))])

\* atr
atr(high, low, close, period) ==
    With(true_range(high, low, close), LAMBDA tr : wilder(tr, period))

\* the smoothing loop of adx: NaN below index 2 * period, the mean of the
\* DX values in [period, 2 * period] that are not NaN at index 2 * period
RECURSIVE adx_loop(_, _, _)
adx_loop(dx, period, res) ==
    LET i == Len(res) + 1
    IN  IF i > Len(dx) THEN res
        ELSE With(Append(res,
                    IF i <= 2 * period THEN NaN
                    ELSE IF i = 2 * period + 1
                         THEN NanMean(Slice(dx, period, 2 * period + 1))
                    ELSE FOver(FAdd(FTimes(period - 1, res[i - 1]), dx[i]),
                               period)),
                  LAMBDA next : adx_loop(dx, period, next))

\* plus_dm and minus_dm of adx after the two zeroing assignments:
\* <<plus_dm, minus_dm>>
directional_movement(high, low) ==
    LET n == Len(high)
        prev(arr, i) == IF i = 1 THEN arr[n] ELSE arr[i - 1]
        pdm(i) == FMax(FSub(high[i], prev(high, i)), 0)
        mdm(i) == FMax(FSub(prev(low, i), low[i]), 0)
        plus_dm(i) == IF FLt(pdm(i), mdm(i)) THEN 0 ELSE pdm(i)
    IN  <<Arr([i \in 1..n |-> plus_dm(i)]),
          Arr([i \in 1..n |->
                  IF FLe(mdm(i), plus_dm(i)) THEN 0 ELSE mdm(i)])>>

\* adx; g is what a read of an entry that np.divide(..., where=...) left
\* unassigned returns
adx(high, low, close, period, g) ==
    With(directional_movement(high, low), LAMBDA dm :
    With(atr(high, low, close, period), LAMBDA atr_val :
    With(Arr([i \in 1..Len(close) |->
                 FTimes(100, IF atr_val[i] = NaN THEN g
                             ELSE FDiv(dm[1][i], atr_val[i]))]),
         LAMBDA plus_di :
    With(Arr([i \in 1..Len(close) |->
                 FTimes(100, IF atr_val[i] = NaN THEN g
                             ELSE FDiv(dm[2][i], atr_val[i]))]),
         LAMBDA minus_di :
    With(Arr([i \in 1..Len(close) |->
                 LET sum == FAdd(plus_di[i], minus_di[i])
                 IN  FTimes(100,
                       IF sum = 0 THEN g
                       ELSE FDiv(FAbs(FSub(plus_di[i], minus_di[i])),
                                 FAdd(sum, Eps)))]),
         LAMBDA dx : adx_loop(dx, period, <<>>))))))

\* adx raises IndexError at adx[2 * period] (or inside atr) on a series
\* that has no such index
adx_raises(close, period) == Len(close) <= 2 * period

(***************************************************************************)
(* MeanReversionSignal (app/strategy/mean_reversion.py)                    *)
(***************************************************************************)
num_std == 2
atr_mult_trailing == (12 * Scale) \div 10
Last(arr) == arr[Len(arr)]

\* _indicators raises what the first indicator that cannot index its
\* series raises
indicators_raises(cs) ==
    \/ rolling_window_raises(Column(cs, 3), window_bb)
    \/ wilder_raises(Column(cs, 3), period_rsi)
    \/ adx_raises(Column(cs, 3), period_adx)
    \/ wilder_raises(Column(cs, 3), period_atr)

\* MeanReversionSignal._indicators
indicators(cs, g) ==
    With(Column(cs, 3), LAMBDA close :
    With(Column(cs, 1), LAMBDA high :
    With(Column(cs, 2), LAMBDA low :
    With(bollinger_bands(close, window_bb, num_std), LAMBDA bands :
        [close |-> close, lower |-> bands[1], mid |-> bands[2],
         upper |-> bands[3], rsi |-> rsi(close, period_rsi),
         adx |-> adx(high, low, close, period_adx, g),
         atr |-> atr(high, low, close, period_atr)]))))

\* the values of the last bar
last_bar(ind) ==
    [close |-> Last(ind.close), lower |-> Last(ind.lower),
     mid |-> Last(ind.mid), upper |-> Last(ind.upper),
     rsi |-> Last(ind.rsi), adx |-> Last(ind.adx), atr |-> Last(ind.atr)]

\* generate that applies the ADX filter after the two entry tests
generate_filter_last(ind) ==
    LET b == last_bar(ind)
    IN  IF IsNaN(b.mid) THEN "none"
        ELSE IF FLt(b.close, b.lower) /\ FLt(b.rsi, FromInt(30)) THEN "long"
        ELSE IF FGt(b.close, b.upper) /\ FGt(b.rsi, FromInt(70)) THEN "short"
        ELSE "none"

\* MeanReversionSignal.generate, from its second line on: ind is what
\* self._indicators(candles) returned
generate(ind) ==
    LET b == last_bar(ind)
    IN  IF IsNaN(b.mid) THEN "none"
        ELSE IF FGe(b.adx, FromInt(25)) THEN "none"
        ELSE IF FLt(b.close, b.lower) /\ FLt(b.rsi, FromInt(30)) THEN "long"
        ELSE IF FGt(b.close, b.upper) /\ FGt(b.rsi, FromInt(70)) THEN "short"
        ELSE "none"

\* should_exit without the trailing stop
should_exit_no_trailing(side, ind, entry) ==
    LET b == last_bar(ind)
    IN  IF IsNaN(b.mid) \/ IsNaN(b.atr) THEN [exit |-> FALSE, price |-> 0]
        ELSE IF \/ side = "long" /\ FGe(b.close, b.mid)
                \/ side = "short" /\ FLe(b.close, b.mid)
             THEN [exit |-> TRUE, price |-> b.close]
        ELSE [exit |-> FALSE, price |-> 0]

\* MeanReversionSignal.should_exit, from its second line on: [exit, price]
should_exit(side, ind, entry) ==
    LET b == last_bar(ind)
        trailing_dist == FMul(atr_mult_trailing, b.atr)
    IN  IF IsNaN(b.mid) \/ IsNaN(b.atr) THEN [exit |-> FALSE, price |-> 0]
        ELSE IF \/ side = "long" /\ FGe(b.close, b.mid)
                \/ side = "short" /\ FLe(b.close, b.mid)
             THEN [exit |-> TRUE, price |-> b.close]
        ELSE IF side = "long"
                /\ FLe(b.close, FSub(entry, trailing_dist))
             THEN [exit |-> TRUE, price |-> b.close]
        ELSE IF side = "short"
                /\ FGe(b.close, FAdd(entry, trailing_dist))
             THEN [exit |-> TRUE, price |-> b.close]
        ELSE [exit |-> FALSE, price |-> 0]

\* what an unassigned entry of an array can hold when it is read
Garbage == {0, FromInt(1), NaN}

\* no matrix has been handed over yet
NoOut == [op |-> "none"]
NoBar == [close |-> 0, lower |-> 0, mid |-> 0, upper |-> 0, rsi |-> 0,
          adx |-> 0, atr |-> 0]
NoMatrix == bars = <<>> /\ out = NoOut

NoPosition == [side |-> "none", qty |-> 0]
NoCtx == [side |-> "none", close |-> 0, price |-> 0, qty |-> 0, risk |-> 0]
NoOrder == [kind |-> "none", held |-> FALSE]

\* MeanReversionEngine.__init__ of every symbol's engine
InitEngines ==
    /\ ticks = [s \in Symbols |-> <<>>]
    /\ candles = [s \in Symbols |-> <<>>]
    /\ allTicks = <<>>
    /\ lastStep = [op |-> "init", trimmed |-> FALSE]
    /\ position = [s \in Symbols |-> NoPosition]
    /\ entry_price = [s \in Symbols |-> 0]
    /\ pc = [s \in Symbols |-> "sleep"]
    /\ ctx = [s \in Symbols |-> NoCtx]
    /\ lastOrder = [s \in Symbols |-> NoOrder]
    /\ nheld = [s \in Symbols |-> 0]
    /\ reserved = [s \in Symbols |-> 0]
    /\ nticks = [s \in Symbols |-> 0]
    /\ lastCycle = [s \in Symbols |-> "ok"]
    /\ beat = [s \in Symbols |-> 0]

(***************************************************************************)
(* Aggregation specification: trade messages and aggregation passes of one *)
(* symbol, in any order, with any timestamps                               *)
(***************************************************************************)
InitAgg ==
    /\ today = 0
    /\ rg = reset(0)
    /\ max_daily_drawdown = 2
    /\ profit_lock = 3
    /\ max_trades = 2
    /\ max_total_risk = 3
    /\ lastCall = NoCall
    /\ allocRun = 0
    /\ InitEngines
    /\ NoMatrix
    /\ live = FALSE
    /\ qty_step = "int"

\* MeanReversionEngine._on_trade
OnTrade ==
    \E batch \in Batches :
        /\ Len(allTicks) + Len(batch) <= MaxTicks
        /\ ticks' = [ticks EXCEPT ![AggSymbol] = append_ticks(@, batch)]
        /\ allTicks' = allTicks \o batch
        /\ lastStep' = [op |-> "on_trade", trimmed |-> FALSE]
        /\ UNCHANGED <<ledgerVars, candles, engVars>>

\* MeanReversionEngine._build_candle
BuildCandle ==
    /\ candles' = [candles EXCEPT
                     ![AggSymbol] = build_candle(ticks[AggSymbol], @)]
    /\ lastStep' = [op |-> "build_candle",
                    trimmed |-> Len(stored_candles(ticks[AggSymbol],
                                     candles[AggSymbol])) > CandleCap]
    /\ UNCHANGED <<ledgerVars, ticks, allTicks, engVars>>

NextAgg == OnTrade \/ BuildCandle

SpecAgg == InitAgg /\ [][NextAgg]_vars

(***************************************************************************)
(* Ledger specification: any sequence of RiskGuard calls and date changes  *)
(***************************************************************************)
InitRG ==
    /\ today = 0
    /\ rg = reset(0)
    /\ max_daily_drawdown \in DrawdownCfgs
    /\ profit_lock \in ProfitLockCfgs
    /\ max_trades \in MaxTradesCfgs
    /\ max_total_risk \in MaxTotalRiskCfgs
    /\ lastCall = NoCall
    /\ allocRun = 0
    /\ InitEngines
    /\ NoMatrix
    /\ live = FALSE
    /\ qty_step = "int"

\* the wall-clock date advances
NewDay ==
    /\ today < MaxDay
    /\ today' = today + 1
    /\ UNCHANGED <<rgVars, lastCall, allocRun, aggVars>>

CallRegisterTrade ==
    \E pnl \in Pnls, risk_used \in Amounts :
        /\ check_new_day(rg, today).trades < TradeBound
        /\ Abs(check_new_day(rg, today).realized + pnl) <= RealizedBound
        /\ rg' = register_trade(rg, today, pnl, risk_used)
        /\ lastCall' = Call("register_trade", pnl, risk_used, TRUE,
                             today # rg.date)
        /\ allocRun' = -1
        /\ UNCHANGED <<today, max_daily_drawdown, profit_lock, max_trades,
                       max_total_risk, aggVars>>

CallAllocateRisk ==
    \E risk \in Amounts :
        LET r == allocate_risk(rg, today, risk) IN
        /\ rg' = r.st
        /\ lastCall' = Call("allocate_risk", risk, 0, r.ret, today # rg.date)
        /\ allocRun' = RunAfter(rg, today, r.ret)
        /\ UNCHANGED <<today, max_daily_drawdown, profit_lock, max_trades,
                       max_total_risk, aggVars>>

CallIsTradingAllowed ==
    LET r == is_trading_allowed(rg, today) IN
    /\ rg' = r.st
    /\ lastCall' = Call("is_trading_allowed", 0, 0, r.ret, today # rg.date)
    /\ allocRun' = -1
    /\ UNCHANGED <<today, max_daily_drawdown, profit_lock, max_trades,
                   max_total_risk, aggVars>>

NextRG ==
    \/ NewDay
    \/ CallRegisterTrade
    \/ CallAllocateRisk
    \/ CallIsTradingAllowed

SpecRG == InitRG /\ [][NextRG]_vars

(***************************************************************************)
(* Engine cycle (app/engine.py): _run_loop, _evaluate, _open_position,     *)
(* _close_position.  Each action runs the coroutine from one suspension    *)
(* point (await) to the next; between two awaits nothing else runs.        *)
(***************************************************************************)
Held(e) == position[e].side # "none"
LastCandle(cs) == cs[Len(cs)]

\* the entry guard of _evaluate with the position test left out
may_enter_always(e) == TRUE

\* `self.position is None` in the entry guard of _evaluate
may_enter(e) == position[e] = NoPosition

\* pnl_pct of _close_position; the closing side is Sell for a long
pnl_pct(price, entry, side) ==
    (((price - entry) * 100) \div entry) * (IF side = "long" THEN 1 ELSE -1)

Sleep(e) ==
    /\ pc' = [pc EXCEPT ![e] = "sleep"]
    /\ ctx' = [ctx EXCEPT ![e] = NoCtx]

\* an iteration of _run_loop starts and its cycle is, so far, of that kind
Cycle(e, kind) ==
    /\ lastCycle' = [lastCycle EXCEPT ![e] = kind]
    /\ beat' = [beat EXCEPT ![e] = IF live THEN 1 - @ ELSE @]

\* an except clause that lets the exception end the task instead
Caught_reraise(e, kind) ==
    /\ pc' = [pc EXCEPT ![e] = "done"]
    /\ ctx' = [ctx EXCEPT ![e] = NoCtx]
    /\ lastCycle' = [lastCycle EXCEPT ![e] = kind]
    /\ UNCHANGED beat

\* `except Exception` of _run_loop: the exception is logged and the loop
\* goes on to its sleep
Caught(e, kind) ==
    /\ Sleep(e)
    /\ lastCycle' = [lastCycle EXCEPT ![e] = kind]
    /\ UNCHANGED beat

\* the cycle returns to _run_loop
Returned(e) ==
    /\ Sleep(e)
    /\ UNCHANGED loopVars

\* the k-th trade print of an engine's feed: the first in minute 0 and the
\* later ones in minute 60, the price falling from 2 to 1 at the third
EngineFeed(k) ==
    {t \in EngineTicks : /\ t.T = (IF k = 1 THEN 1000 ELSE 61000)
                         /\ t.p = (IF k <= 2 THEN 2 ELSE 1)}

\* _on_trade of an engine: the next trade print of its feed
EngineOnTrade(e) ==
    \E t \in EngineFeed(nticks[e] + 1) :
        /\ nticks[e] < MaxEngineTicks
        /\ ticks' = [ticks EXCEPT ![e] = append_ticks(@, <<t>>)]
        /\ nticks' = [nticks EXCEPT ![e] = @ + 1]
        /\ UNCHANGED <<ledgerVars, candles, allTicks, lastStep, position,
                       entry_price, pc, ctx, lastOrder, nheld,
                       reserved, qty_step,
                       restVars, loopVars>>

\* a cycle that stops at `len(self.candles) < 100`
CycleWarmup(e) ==
    /\ pc[e] = "sleep"
    /\ Len(build_candle(ticks[e], candles[e])) < MinCandles
    /\ candles' = [candles EXCEPT ![e] = build_candle(ticks[e], @)]
    /\ Cycle(e, "ok")
    /\ UNCHANGED <<ledgerVars, ticks, allTicks, lastStep, position,
                   entry_price, pc, ctx, lastOrder, nheld,
                   reserved, nticks, qty_step,
                   restVars>>

\* a cycle in which _evaluate neither opens nor closes and asks nothing of
\* the RiskGuard: no signal and no exit, or a signal while a position is held
CycleNoAction(e) ==
    \E signal \in Signals, exit_ \in BOOLEAN :
        /\ pc[e] = "sleep"
        /\ Len(build_candle(ticks[e], candles[e])) >= MinCandles
        /\ \/ signal = "none" /\ ~Held(e)
           \/ signal = "none" /\ Held(e) /\ ~exit_
           \/ signal # "none" /\ ~may_enter(e)
        /\ candles' = [candles EXCEPT ![e] = build_candle(ticks[e], @)]
        /\ Cycle(e, IF signal # "none" /\ Held(e) /\ exit_
                    THEN "exit_unchecked" ELSE "ok")
        /\ UNCHANGED <<ledgerVars, ticks, allTicks, lastStep, position,
                       entry_price, pc, ctx, lastOrder, nheld, reserved, nticks,
                       qty_step, restVars>>

\* a cycle with an entry signal refused by is_trading_allowed
CycleGateClosed(e) ==
    \E signal \in Signals \ {"none"} :
        /\ pc[e] = "sleep"
        /\ Len(build_candle(ticks[e], candles[e])) >= MinCandles
        /\ may_enter(e)
        /\ ~is_trading_allowed(rg, today).ret
        /\ rg' = is_trading_allowed(rg, today).st
        /\ candles' = [candles EXCEPT ![e] = build_candle(ticks[e], @)]
        /\ Cycle(e, "ok")
        /\ UNCHANGED <<today, cfgVars, lastCall, allocRun, ticks, allTicks,
                       lastStep, position, entry_price, pc, ctx, lastOrder,
                       nheld, reserved, nticks>>

\* a cycle with an entry signal that passes is_trading_allowed and suspends
\* in _open_position at `await self.exchange.wallet_balance()`
CycleEntry(e) ==
    \E signal \in Signals \ {"none"} :
        LET cs == build_candle(ticks[e], candles[e]) IN
        /\ pc[e] = "sleep"
        /\ Len(cs) >= MinCandles
        /\ may_enter(e)
        /\ is_trading_allowed(rg, today).ret
        /\ rg' = is_trading_allowed(rg, today).st
        /\ candles' = [candles EXCEPT ![e] = cs]
        /\ pc' = [pc EXCEPT ![e] = "balance"]
        /\ ctx' = [ctx EXCEPT ![e] = [NoCtx EXCEPT !.side = signal,
                                                   !.close = LastCandle(cs)[5]]]
        /\ Cycle(e, "ok")
        /\ UNCHANGED <<today, cfgVars, lastCall, allocRun, ticks, allTicks,
                       lastStep, position, entry_price, lastOrder, nheld,
                       reserved,
                       nticks>>

\* a cycle without signal in which should_exit triggers: _close_position
\* hands the reduce-only order to create_order and suspends there
CycleExit(e) ==
    LET cs == build_candle(ticks[e], candles[e]) IN
    /\ pc[e] = "sleep"
    /\ Len(cs) >= MinCandles
    /\ Held(e)
    /\ candles' = [candles EXCEPT ![e] = cs]
    /\ lastOrder' = [lastOrder EXCEPT ![e] = [kind |-> "close",
                                               held |-> Held(e)]]
    /\ pc' = [pc EXCEPT ![e] = "close_order"]
    /\ ctx' = [ctx EXCEPT ![e] = [NoCtx EXCEPT !.price = LastCandle(cs)[4]]]
    /\ Cycle(e, "ok")
    /\ UNCHANGED <<ledgerVars, ticks, allTicks, lastStep, position,
                   entry_price, nheld, reserved, nticks, qty_step,
                   restVars>>

\* wallet_balance raises: the cycle ends in the except of _run_loop
BalanceFails(e) ==
    /\ pc[e] = "balance"
    /\ Caught(e, "io_error")
    /\ UNCHANGED <<ledgerVars, ticks, candles, allTicks, lastStep, position,
                   entry_price, lastOrder, nheld, reserved, nticks, qty_step,
                   restVars>>

\* wallet_balance returns and round(qty, qty_step) raises TypeError because
\* the configured step is a float: the cycle ends in the except of _run_loop
RoundFails(e) ==
    /\ pc[e] = "balance"
    /\ qty_step = "float"
    /\ Caught(e, "type_error")
    /\ UNCHANGED <<ledgerVars, ticks, candles, allTicks, lastStep, position,
                   entry_price, lastOrder, nheld, reserved, nticks, qty_step,
                   restVars>>

\* wallet_balance returns and the rounded qty is <= 0 (no balance, a zero
\* stop distance, or a quantity that rounds to zero): nothing is reserved
QtyZero(e) ==
    /\ pc[e] = "balance"
    /\ qty_step = "int"
    /\ Returned(e)
    /\ UNCHANGED <<ledgerVars, ticks, candles, allTicks, lastStep, position,
                   entry_price, lastOrder, nheld, reserved, nticks, qty_step,
                   restVars>>

\* wallet_balance returns, qty > 0, and allocate_risk refuses
AllocationRefused(e) ==
    \E balance \in Balances \ {0} :
        /\ pc[e] = "balance"
        /\ qty_step = "int"
        /\ ~allocate_risk(rg, today, balance).ret
        /\ rg' = allocate_risk(rg, today, balance).st
        /\ Returned(e)
        /\ UNCHANGED <<today, cfgVars, lastCall, allocRun, ticks, candles,
                       allTicks, lastStep, position, entry_price, lastOrder,
                       nheld, reserved, nticks>>

\* wallet_balance returns, qty > 0, allocate_risk reserves the risk and the
\* entry order is handed to create_order, where the coroutine suspends
SubmitEntry(e) ==
    \E balance \in Balances \ {0} :
        /\ pc[e] = "balance"
        /\ qty_step = "int"
        /\ allocate_risk(rg, today, balance).ret
        /\ rg' = allocate_risk(rg, today, balance).st
        /\ lastOrder' = [lastOrder EXCEPT ![e] = [kind |-> "entry",
                                                   held |-> Held(e)]]
        /\ pc' = [pc EXCEPT ![e] = "open_order"]
        /\ ctx' = [ctx EXCEPT ![e] = [@ EXCEPT !.qty = 1, !.risk = balance]]
        /\ reserved' = [reserved EXCEPT ![e] = balance]
        /\ UNCHANGED <<today, cfgVars, lastCall, allocRun, ticks, candles,
                       allTicks, lastStep, position, entry_price, nheld,
                       nticks, loopVars>>

\* create_order of the entry raises
EntryOrderFails(e) ==
    /\ pc[e] = "open_order"
    /\ Caught(e, "io_error")
    /\ reserved' = [reserved EXCEPT ![e] = 0]
    /\ UNCHANGED <<ledgerVars, ticks, candles, allTicks, lastStep, position,
                   entry_price, lastOrder, nheld, nticks, qty_step,
                   restVars>>

\* create_order of the entry returns: the Position is recorded and the
\* coroutine suspends in notifier.send
EntryOrderDone(e) ==
    /\ pc[e] = "open_order"
    /\ position' = [position EXCEPT ![e] = [side |-> ctx[e].side,
                                             qty |-> ctx[e].qty]]
    /\ nheld' = [nheld EXCEPT ![e] = @ + 1]
    /\ UNCHANGED reserved
    /\ entry_price' = [entry_price EXCEPT ![e] = ctx[e].close]
    /\ pc' = [pc EXCEPT ![e] = "open_notify"]
    /\ UNCHANGED <<ledgerVars, ticks, candles, allTicks, lastStep, ctx,
                   lastOrder, nticks, qty_step,
                   restVars, loopVars>>

\* notifier.send returns (it never raises) and the cycle ends
EntryNotified(e) ==
    /\ pc[e] = "open_notify"
    /\ Returned(e)
    /\ UNCHANGED <<ledgerVars, ticks, candles, allTicks, lastStep, position,
                   entry_price, lastOrder, nheld, reserved, nticks, qty_step,
                   restVars>>

\* create_order of the close raises
CloseOrderFails(e) ==
    /\ pc[e] = "close_order"
    /\ Caught(e, "io_error")
    /\ UNCHANGED <<ledgerVars, ticks, candles, allTicks, lastStep, position,
                   entry_price, lastOrder, nheld, reserved, nticks, qty_step,
                   restVars>>

\* create_order of the close returns: register_trade(pnl_pct, 0.0), then the
\* coroutine suspends in notifier.send
CloseOrderDone(e) ==
    /\ pc[e] = "close_order"
    /\ rg' = register_trade(rg, today,
                 pnl_pct(ctx[e].price, entry_price[e], position[e].side), 0)
    /\ pc' = [pc EXCEPT ![e] = "close_notify"]
    /\ UNCHANGED <<today, cfgVars, lastCall, allocRun, ticks, candles,
                   allTicks, lastStep, position, entry_price, ctx, lastOrder,
                   nheld, reserved, nticks, loopVars>>

\* notifier.send returns, `self.position = None`, and the cycle ends
CloseNotified(e) ==
    /\ pc[e] = "close_notify"
    /\ position' = [position EXCEPT ![e] = NoPosition]
    /\ nheld' = [nheld EXCEPT ![e] = @ - 1]
    /\ reserved' = [reserved EXCEPT ![e] = 0]
    /\ Returned(e)
    /\ UNCHANGED <<ledgerVars, ticks, candles, allTicks, lastStep,
                   entry_price, lastOrder, nticks, qty_step,
                   restVars>>

\* EngineManager.__init__ and start: one RiskGuard, one engine per symbol
InitEngine ==
    /\ today = 0
    /\ rg = reset(0)
    /\ max_daily_drawdown = 50
    /\ profit_lock = 50
    /\ max_trades = 2
    /\ max_total_risk = 2
    /\ lastCall = NoCall
    /\ allocRun = 0
    /\ InitEngines
    /\ NoMatrix
    /\ live = FALSE
    /\ qty_step \in {"int", "float"}

Next ==
    \/ NewDay
    \/ \E e \in Symbols : EngineOnTrade(e)
    \/ \E e \in Symbols : CycleWarmup(e)
    \/ \E e \in Symbols : CycleNoAction(e)
    \/ \E e \in Symbols : CycleGateClosed(e)
    \/ \E e \in Symbols : CycleEntry(e)
    \/ \E e \in Symbols : CycleExit(e)
    \/ \E e \in Symbols : BalanceFails(e)
    \/ \E e \in Symbols : RoundFails(e)
    \/ \E e \in Symbols : QtyZero(e)
    \/ \E e \in Symbols : AllocationRefused(e)
    \/ \E e \in Symbols : SubmitEntry(e)
    \/ \E e \in Symbols : EntryOrderFails(e)
    \/ \E e \in Symbols : EntryOrderDone(e)
    \/ \E e \in Symbols : EntryNotified(e)
    \/ \E e \in Symbols : CloseOrderFails(e)
    \/ \E e \in Symbols : CloseOrderDone(e)
    \/ \E e \in Symbols : CloseNotified(e)

Spec == InitEngine /\ [][Next]_vars

(***************************************************************************)
(* Pool specification: the engines of the engine specification sharing a   *)
(* RiskGuard whose max_total_risk covers the risk of one entry             *)
(***************************************************************************)
InitPool ==
    /\ today = 0
    /\ rg = reset(0)
    /\ max_daily_drawdown = 50
    /\ profit_lock = 50
    /\ max_trades = 2
    /\ max_total_risk = 1
    /\ lastCall = NoCall
    /\ allocRun = 0
    /\ InitEngines
    /\ NoMatrix
    /\ live = FALSE
    /\ qty_step \in {"int", "float"}

SpecPool == InitPool /\ [][Next]_vars

(***************************************************************************)
(* Loop specification: the engines of the engine specification with the    *)
(* iterations of each _run_loop counted, and with the scheduling of the    *)
(* event loop: a task that can go on is eventually resumed                 *)
(***************************************************************************)
\* the trade print an engine's feed delivers as its k-th
FeedTick(k) == CHOOSE t \in EngineFeed(k) : TRUE

\* deque and candle list of an engine that received k trade prints and ran a
\* cycle after each
RECURSIVE Fed(_)
Fed(k) ==
    IF k = 0 THEN [ticks |-> <<>>, candles |-> <<>>]
    ELSE LET before == Fed(k - 1)
             buf == append_ticks(before.ticks, <<FeedTick(k)>>)
         IN  [ticks |-> buf, candles |-> build_candle(buf, before.candles)]

\* the Position of an engine that went long for the quantity 1
LongPosition == [side |-> "long", qty |-> 1]

\* each engine is either still without a trade print or has been through
\* its feed; an engine that has been through its feed is FLAT or holds the
\* long Position it opened, with a balance of 1 at risk, in the cycle before
\* its last trade print
InitLive ==
    /\ today = 0
    /\ max_daily_drawdown = 50
    /\ profit_lock = 50
    /\ max_trades = 2
    /\ max_total_risk = 2
    /\ lastCall = NoCall
    /\ allocRun = 0
    /\ nticks \in [Symbols -> {0, MaxEngineTicks}]
    /\ ticks = [s \in Symbols |-> Fed(nticks[s]).ticks]
    /\ candles = [s \in Symbols |-> Fed(nticks[s]).candles]
    /\ allTicks = <<>>
    /\ lastStep = [op |-> "init", trimmed |-> FALSE]
    /\ position \in [Symbols -> {NoPosition, LongPosition}]
    /\ \A s \in Symbols :
           position[s] = LongPosition =>
               /\ nticks[s] = MaxEngineTicks
               /\ Len(Fed(MaxEngineTicks - 1).candles) >= MinCandles
    /\ entry_price =
           [s \in Symbols |->
               IF position[s] = NoPosition THEN 0
               ELSE LastCandle(Fed(MaxEngineTicks - 1).candles)[5]]
    /\ rg = [reset(0) EXCEPT !.unrealized_risk =
                 Cardinality({s \in Symbols : position[s] = LongPosition})]
    /\ pc = [s \in Symbols |-> "sleep"]
    /\ ctx = [s \in Symbols |-> NoCtx]
    /\ lastOrder = [s \in Symbols |->
                       IF position[s] = NoPosition THEN NoOrder
                       ELSE [kind |-> "entry", held |-> FALSE]]
    /\ nheld = [s \in Symbols |->
                   IF position[s] = NoPosition THEN 0 ELSE 1]
    /\ reserved = [s \in Symbols |->
                      IF position[s] = NoPosition THEN 0 ELSE 1]
    /\ lastCycle = [s \in Symbols |-> "ok"]
    /\ beat = [s \in Symbols |-> 0]
    /\ NoMatrix
    /\ live = TRUE
    /\ qty_step \in {"int", "float"}
    /\ (qty_step = "float") => \A s \in Symbols : position[s] = NoPosition

\* what the task of one engine's _run_loop can do next: start an iteration
\* after asyncio.sleep(1) returned, or go on after an awaited call returned
\* or raised
RunLoop(e) ==
    \/ CycleWarmup(e)
    \/ CycleNoAction(e)
    \/ CycleGateClosed(e)
    \/ CycleEntry(e)
    \/ CycleExit(e)
    \/ BalanceFails(e)
    \/ RoundFails(e)
    \/ QtyZero(e)
    \/ AllocationRefused(e)
    \/ SubmitEntry(e)
    \/ EntryOrderFails(e)
    \/ EntryOrderDone(e)
    \/ EntryNotified(e)
    \/ CloseOrderFails(e)
    \/ CloseOrderDone(e)
    \/ CloseNotified(e)

NextLive == \E e \in Symbols : RunLoop(e)

\* asyncio resumes every task whose sleep is over or whose awaited call has
\* returned or raised
Scheduling == \A e \in Symbols : WF_vars(RunLoop(e))

SpecLive == InitLive /\ [][NextLive]_vars /\ Scheduling

(***************************************************************************)
(* Strategy specification: a candle matrix grows row by row, and generate  *)
(* and should_exit are called on it, any number of times                   *)
(***************************************************************************)
InitSig ==
    /\ today = 0
    /\ rg = reset(0)
    /\ max_daily_drawdown = 2
    /\ profit_lock = 3
    /\ max_trades = 2
    /\ max_total_risk = 3
    /\ lastCall = NoCall
    /\ allocRun = 0
    /\ InitEngines
    /\ qty_step = "int"
    /\ bars \in {<<r>> : r \in SigRows}
    /\ out = NoOut
    /\ live = FALSE

sigFrame == <<ledgerVars, ticks, candles, allTicks, lastStep, position,
              entry_price, pc, ctx, lastOrder, nheld,
              reserved, nticks, qty_step,
              loopVars, live>>

\* the caller hands over a matrix with one more row
AddBar ==
    \E r \in SigRows :
        /\ Len(bars) < MaxBars
        /\ bars' = Append(bars, r)
        /\ out' = NoOut
        /\ UNCHANGED sigFrame

\* a call of generate; `first` is what the first call on this matrix
\* returned, `bar` the last-bar values the call decided on
CallGenerate ==
    \E g \in Garbage :
        /\ out.op \in {"none", "generate"}
        /\ out' = IF indicators_raises(bars)
                  THEN [op |-> "generate", ret |-> "raise",
                        first |-> IF out.op = "generate" THEN out.first
                                  ELSE "raise",
                        bar |-> NoBar]
                  ELSE With(indicators(bars, g), LAMBDA ind :
                         [op |-> "generate", ret |-> generate(ind),
                          first |-> IF out.op = "generate" THEN out.first
                                    ELSE generate(ind),
                          bar |-> last_bar(ind)])
        /\ UNCHANGED <<bars, sigFrame>>

\* a call of should_exit; close, mid and atr are the last-bar values the
\* call decided on
CallShouldExit ==
    \E g \in Garbage :
        /\ out.op = "none"
        /\ out' \in
             IF indicators_raises(bars)
             THEN {[op |-> "should_exit", raised |-> TRUE]}
             ELSE With(indicators(bars, g), LAMBDA ind :
                    {[op |-> "should_exit", raised |-> FALSE,
                      side |-> side, entry_price |-> FromInt(entry),
                      ret |-> should_exit(side, ind, FromInt(entry)),
                      close |-> Last(ind.close), mid |-> Last(ind.mid),
                      atr |-> Last(ind.atr)] :
                        side \in Sides, entry \in EntryPrices})
        /\ UNCHANGED <<bars, sigFrame>>

NextSig == AddBar \/ CallGenerate \/ CallShouldExit

SpecSig == InitSig /\ [][NextSig]_vars

(***************************************************************************)
(* Indicator specification: the functions of app/indicators.py called on   *)
(* their own, with any window or period, on the columns of a growing       *)
(* matrix                                                                  *)
(***************************************************************************)
InitInd ==
    /\ today = 0
    /\ rg = reset(0)
    /\ max_daily_drawdown = 2
    /\ profit_lock = 3
    /\ max_trades = 2
    /\ max_total_risk = 3
    /\ lastCall = NoCall
    /\ allocRun = 0
    /\ InitEngines
    /\ qty_step = "int"
    /\ bars \in {<<r>> : r \in SigRows}
    /\ out = NoOut
    /\ live = FALSE

\* the columns the strategy hands to the indicator functions
HighOf(m) == Column(m, 1)
LowOf(m) == Column(m, 2)
CloseOf(m) == Column(m, 3)

\* the series grow by one bar
GrowSeries ==
    \E r \in SigRows :
        /\ Len(bars) < MaxSeries
        /\ bars' = Append(bars, r)
        /\ out' = NoOut
        /\ UNCHANGED sigFrame

\* the calls: each on the matrix as it stands, before it grows again (what a
\* call returns does not depend on the calls before it)
CallSma ==
    \E w \in 1..MaxWindow :
        /\ out = NoOut
        /\ out' = IF rolling_window_raises(CloseOf(bars), w)
                  THEN [op |-> "sma", window |-> w, raised |-> TRUE]
                  ELSE [op |-> "sma", window |-> w, raised |-> FALSE,
                        ret |-> sma(CloseOf(bars), w)]
        /\ UNCHANGED <<bars, sigFrame>>

CallStd ==
    \E w \in 1..MaxWindow :
        /\ out = NoOut
        /\ out' = IF rolling_window_raises(CloseOf(bars), w)
                  THEN [op |-> "std", window |-> w, raised |-> TRUE]
                  ELSE [op |-> "std", window |-> w, raised |-> FALSE,
                        ret |-> std(CloseOf(bars), w)]
        /\ UNCHANGED <<bars, sigFrame>>

CallBollinger ==
    \E w \in 1..MaxWindow :
        /\ out = NoOut
        /\ out' = IF rolling_window_raises(CloseOf(bars), w)
                  THEN [op |-> "bollinger_bands", window |-> w,
                        raised |-> TRUE]
                  ELSE [op |-> "bollinger_bands", window |-> w,
                        raised |-> FALSE,
                        ret |-> bollinger_bands(CloseOf(bars), w, num_std)]
        /\ UNCHANGED <<bars, sigFrame>>

\* avg_loss is the local array of that name when the call returns
CallRsi ==
    \E p \in 1..MaxPeriod :
        /\ out = NoOut
        /\ out' = IF wilder_raises(CloseOf(bars), p)
                  THEN [op |-> "rsi", period |-> p, raised |-> TRUE]
                  ELSE [op |-> "rsi", period |-> p, raised |-> FALSE,
                        ret |-> rsi(CloseOf(bars), p),
                        avg_loss |-> rsi_avg_loss(CloseOf(bars), p)]
        /\ UNCHANGED <<bars, sigFrame>>

\* tr is the local array of that name when the call returns
CallAtr ==
    \E p \in 1..MaxPeriod :
        /\ out = NoOut
        /\ out' = IF wilder_raises(CloseOf(bars), p)
                  THEN [op |-> "atr", period |-> p, raised |-> TRUE]
                  ELSE [op |-> "atr", period |-> p, raised |-> FALSE,
                        ret |-> atr(HighOf(bars), LowOf(bars),
                                    CloseOf(bars), p),
                        tr |-> true_range(HighOf(bars), LowOf(bars),
                                          CloseOf(bars))]
        /\ UNCHANGED <<bars, sigFrame>>

CallAdx ==
    \E p \in 1..MaxPeriod, g \in Garbage :
        /\ out = NoOut
        /\ out' = IF adx_raises(CloseOf(bars), p)
                  THEN [op |-> "adx", period |-> p, raised |-> TRUE]
                  ELSE [op |-> "adx", period |-> p, raised |-> FALSE,
                        ret |-> adx(HighOf(bars), LowOf(bars),
                                    CloseOf(bars), p, g)]
        /\ UNCHANGED <<bars, sigFrame>>

NextInd ==
    \/ GrowSeries
    \/ CallSma
    \/ CallStd
    \/ CallBollinger
    \/ CallRsi
    \/ CallAtr
    \/ CallAdx

SpecInd == InitInd /\ [][NextInd]_vars

(***************************************************************************)
(* Properties of the ledger                                                *)
(***************************************************************************)
\* the zeroed ledger of day d, written out
Zeroed(d) == [date |-> d, trades |-> 0, realized |-> 0, unrealized_risk |-> 0]
\* the ledger a call starting now works on, after its day-rollover check
Base == IF today # rg.date THEN Zeroed(today) ELSE rg
\* this step is a call of op (NewDay is the only step that changes today)
IsCall(op) == today' = today /\ lastCall'.op = op

\* C1: for any sequence of allocate_risk, register_trade and
\* is_trading_allowed calls with non-negative amounts, interleaved with date
\* rollovers, unrealized_risk never exceeds max_total_risk.
C1_RiskWithinCeiling == rg.unrealized_risk <= max_total_risk

\* an allocation was refused because it would have crossed the ceiling
C1_Witness ==
    /\ lastCall.op = "allocate_risk"
    /\ ~lastCall.ret
    /\ rg.trades < max_trades
    /\ rg.unrealized_risk > 0
    /\ rg.unrealized_risk + lastCall.a > max_total_risk

\* C2: on one day, after max_trades allocate_risk calls that each returned
\* true on a freshly reset guard, with no other call in between, the next
\* allocate_risk call within budget returns false and leaves the ledger
\* unchanged.
C2_FourthAllocationRefused ==
    [][(/\ IsCall("allocate_risk")
        /\ today = rg.date
        /\ allocRun = max_trades
        /\ rg.unrealized_risk + lastCall'.a <= max_total_risk)
       => (lastCall'.ret = FALSE /\ rg' = rg)]_vars

\* C3: within one day trades never decreases; an allocate_risk call is
\* refused without mutation when trades >= max_trades or when
\* unrealized_risk + amount > max_total_risk (both taken after the day
\* check), and every other call returns true and adds exactly amount.
C3_AllocateContract ==
    [][/\ (rg'.date = rg.date => rg'.trades >= rg.trades)
       /\ (IsCall("allocate_risk") =>
            LET amount == lastCall'.a
                refused == \/ Base.trades >= max_trades
                           \/ Base.unrealized_risk + amount > max_total_risk
            IN  /\ lastCall'.ret = ~refused
                /\ rg'.date = today
                /\ rg'.trades = Base.trades
                /\ rg'.realized = Base.realized
                /\ rg'.unrealized_risk =
                      IF refused THEN Base.unrealized_risk
                      ELSE Base.unrealized_risk + amount)]_vars

\* a call within budget was refused on the day the trade count reached
\* max_trades
C3_Witness ==
    /\ lastCall.op = "allocate_risk"
    /\ ~lastCall.ret
    /\ ~lastCall.rolled
    /\ rg.trades >= max_trades
    /\ rg.unrealized_risk + lastCall.a <= max_total_risk

\* C4: a call that starts with a stored date other than today works on the
\* zeroed ledger of today: its result and the resulting ledger are those of
\* the same call on a freshly reset guard; a call that starts on the stored
\* date works on the ledger as it is.
C4_RolloverBeforeCall ==
    [][/\ (IsCall("register_trade") /\ today # rg.date =>
             rg' = [date |-> today, trades |-> 1, realized |-> lastCall'.a,
                    unrealized_risk |-> 0])
       /\ (IsCall("allocate_risk") /\ today # rg.date =>
             IF max_trades <= 0 \/ lastCall'.a > max_total_risk
             THEN lastCall'.ret = FALSE /\ rg' = Zeroed(today)
             ELSE /\ lastCall'.ret = TRUE
                  /\ rg' = [date |-> today, trades |-> 0, realized |-> 0,
                            unrealized_risk |-> lastCall'.a])
       /\ (IsCall("is_trading_allowed") /\ today # rg.date =>
             /\ rg' = Zeroed(today)
             /\ lastCall'.ret = (0 > 0 - Abs(max_daily_drawdown)
                                 /\ 0 < profit_lock))
       /\ (IsCall("register_trade") /\ today = rg.date =>
             /\ rg'.date = rg.date
             /\ rg'.trades = rg.trades + 1
             /\ rg'.realized = rg.realized + lastCall'.a)
       /\ (IsCall("allocate_risk") /\ today = rg.date =>
             /\ rg'.date = rg.date
             /\ rg'.trades = rg.trades
             /\ rg'.realized = rg.realized
             /\ rg'.unrealized_risk >= rg.unrealized_risk)
       /\ (IsCall("is_trading_allowed") /\ today = rg.date => rg' = rg)]_vars

\* register_trade was the call that found the date changed
C4_Witness ==
    /\ lastCall.op = "register_trade"
    /\ lastCall.rolled
    /\ lastCall.a # 0
    /\ rg.date = today
    /\ rg.trades = 1

\* C5 as stated: is_trading_allowed returns false exactly when
\* realized <= -max_daily_drawdown or realized >= profit_lock, and changes
\* nothing apart from the day-rollover reset.
C5_GateAsStated ==
    [][IsCall("is_trading_allowed") =>
         /\ rg' = Base
         /\ lastCall'.ret = ~(\/ Base.realized <= 0 - max_daily_drawdown
                              \/ Base.realized >= profit_lock)]_vars

\* C5 amended: the drawdown bound is -|max_daily_drawdown|.
C5_Gate ==
    [][IsCall("is_trading_allowed") =>
         /\ rg' = Base
         /\ lastCall'.ret = ~(\/ Base.realized <= 0 - Abs(max_daily_drawdown)
                              \/ Base.realized >= profit_lock)]_vars

\* the gate closed exactly on the drawdown bound of a guard configured with
\* a negative drawdown
C5_Witness ==
    /\ lastCall.op = "is_trading_allowed"
    /\ ~lastCall.ret
    /\ max_daily_drawdown < 0
    /\ rg.realized = max_daily_drawdown

(***************************************************************************)
(* Properties of the aggregation                                           *)
(***************************************************************************)
\* the studied symbol's buffer and series
AggTicks == ticks[AggSymbol]
AggCandles == candles[AggSymbol]
\* floor(timestamp_ms / 1000) floored to 60 s, written out
Bucket(t) == 60 * ((t.T \div 1000) \div 60)
\* positions in the buffer of the ticks of the newest tick's bucket
NewestBucketIdx ==
    {i \in 1..Len(AggTicks) : Bucket(AggTicks[i]) = Bucket(AggTicks[Len(AggTicks)])}
SetMax(S) == CHOOSE x \in S : \A y \in S : y <= x
SetMin(S) == CHOOSE x \in S : \A y \in S : x <= y
RECURSIVE VolOver(_)
VolOver(I) ==
    IF I = {} THEN 0
    ELSE LET i == CHOOSE j \in I : TRUE IN AggTicks[i].v + VolOver(I \ {i})
\* the candle the claim describes for the current buffer
ExpectedCandle ==
    <<Bucket(AggTicks[Len(AggTicks)]),
      AggTicks[SetMin(NewestBucketIdx)].p,
      SetMax({AggTicks[i].p : i \in NewestBucketIdx}),
      SetMin({AggTicks[i].p : i \in NewestBucketIdx}),
      AggTicks[SetMax(NewestBucketIdx)].p,
      VolOver(NewestBucketIdx)>>

\* C8: after any sequence of tick arrivals and aggregation passes, out of
\* order timestamps included, the candle series has strictly increasing
\* bucket_start.
C8_StrictlyIncreasingBuckets ==
    \A i \in 1..Len(AggCandles) : \A j \in 1..Len(AggCandles) :
        i < j => AggCandles[i][1] < AggCandles[j][1]

\* C9: an aggregation pass over a non-empty buffer writes the candle
\* recomputed from exactly the buffered ticks of the newest tick's bucket;
\* it replaces the last candle when that has the same bucket and is appended
\* otherwise, and the candles before it are the earlier candles, unchanged.
C9_CandleRecomputed ==
    [][(lastStep'.op = "build_candle" /\ AggTicks # <<>>) =>
         LET old == AggCandles
             new == candles'[AggSymbol]
             same == old # <<>> /\ old[Len(old)][1] = ExpectedCandle[1]
             kept == IF same THEN SubSeq(old, 1, Len(old) - 1) ELSE old
         IN  /\ new # <<>>
             /\ new[Len(new)] = ExpectedCandle
             /\ Len(new) - 1 <= Len(kept)
             /\ (Len(kept) < CandleCap => Len(new) - 1 = Len(kept))
             /\ \A k \in 1..(Len(new) - 1) :
                   new[Len(new) - k] = kept[Len(kept) - k + 1]]_vars

\* the spec's example: the trades (1000, 100, 1), (30000, 105, 2) and
\* (59000, 95, 1) were buffered in this order and a pass has run
C9_Witness ==
    /\ lastStep.op = "build_candle"
    /\ allTicks = <<[T |-> 1000, p |-> 100, v |-> 1],
                    [T |-> 30000, p |-> 105, v |-> 2],
                    [T |-> 59000, p |-> 95, v |-> 1]>>
    /\ AggCandles = <<<<0, 100, 105, 95, 95, 4>>>>

\* C10: the tick buffer holds at most TickCap ticks, the most recently
\* appended ones; the candle series holds at most CandleCap candles, a pass
\* dropping the oldest first; once the series has MinCandles candles it
\* never has fewer again.
C10_BoundedBuffers ==
    /\ [](/\ Len(AggTicks) <= TickCap
          /\ Len(AggTicks) = Min(Len(allTicks), TickCap)
          /\ \A k \in 1..Len(AggTicks) :
                AggTicks[Len(AggTicks) - k + 1] = allTicks[Len(allTicks) - k + 1]
          /\ Len(AggCandles) <= CandleCap)
    /\ [][/\ (Len(AggCandles) >= MinCandles
                => Len(candles'[AggSymbol]) >= MinCandles)
          /\ ((/\ lastStep'.op = "build_candle"
               /\ AggTicks # <<>>
               /\ Len(AggCandles) = CandleCap
               /\ AggCandles[CandleCap][1] # Bucket(AggTicks[Len(AggTicks)]))
                => /\ Len(candles'[AggSymbol]) = CandleCap
                   /\ candles'[AggSymbol][CandleCap][1]
                         = Bucket(AggTicks[Len(AggTicks)])
                   /\ \A k \in 1..(CandleCap - 1) :
                         candles'[AggSymbol][k] = AggCandles[k + 1])]_vars

\* the buffer has overflowed and the last pass cut the series to the cap
C10_Witness ==
    /\ Len(allTicks) > TickCap
    /\ Len(AggTicks) = TickCap
    /\ lastStep.op = "build_candle"
    /\ lastStep.trimmed
    /\ Len(AggCandles) = CandleCap

(***************************************************************************)
(* Properties of the engines                                               *)
(***************************************************************************)
\* engine e reserves risk and submits its entry order in this step
EntrySubmitted(e) == pc[e] = "balance" /\ pc'[e] = "open_order"

\* C6: while is_trading_allowed() is false no engine reserves risk or
\* submits a new entry order, whatever the interleaving of the engines at
\* their suspension points.
C6_NoEntryWhileHalted ==
    [][\A e \in Symbols :
         EntrySubmitted(e) => is_trading_allowed(rg, today).ret]_vars

\* C7: every engine holds at most one Position; an entry order is never
\* handed to the exchange while a Position is held and a reduce-only order
\* never while none is held.
C7_OnePosition ==
    \A e \in Symbols :
        /\ nheld[e] \in {0, 1}
        /\ (nheld[e] = 1) = Held(e)
        /\ (lastOrder[e].kind = "entry" => ~lastOrder[e].held)
        /\ (lastOrder[e].kind = "close" => lastOrder[e].held)

\* an engine holding a Position goes through a cycle while the other one,
\* having opened and closed its own, is flat again
C7_Witness ==
    \E e \in Symbols : \E f \in Symbols \ {e} :
        /\ lastOrder[e].kind = "close"
        /\ ~Held(e)
        /\ pc[e] = "sleep"
        /\ Held(f)
        /\ lastOrder[f].kind = "entry"
        /\ pc[f] = "sleep"

(***************************************************************************)
(* Properties of the strategy                                              *)
(***************************************************************************)
GenerateReturned == out.op = "generate" /\ out.ret # "raise"

\* an indicator set of one bar with the given values, in whole numbers
OneBar(close, lower, mid, upper, rsi_val, adx_val) ==
    [close |-> <<FromInt(close)>>, lower |-> <<FromInt(lower)>>,
     mid |-> <<mid>>, upper |-> <<FromInt(upper)>>,
     rsi |-> <<FromInt(rsi_val)>>, adx |-> <<FromInt(adx_val)>>,
     atr |-> <<FromInt(1)>>]

\* the last bar is below the lower band and oversold
LongTest(b) == FLt(b.close, b.lower) /\ FLt(b.rsi, FromInt(30))
\* the last bar is above the upper band and overbought
ShortTest(b) == FGt(b.close, b.upper) /\ FGt(b.rsi, FromInt(70))

\* C11: whatever generate returns is decided on the last bar in this order:
\* middle band undefined gives none; else ADX >= 25 gives none; else close
\* below the lower band with RSI < 30 gives long; else close above the
\* upper band with RSI > 70 gives short; else none.  A close below the
\* lower band never gives short, such a bar with RSI 20 gives long at ADX 10
\* and none at ADX 30, and an undefined middle band gives none.
C11_GenerateOrder ==
    /\ GenerateReturned =>
         /\ out.ret = IF IsNaN(out.bar.mid) THEN "none"
                      ELSE IF FGe(out.bar.adx, FromInt(25)) THEN "none"
                      ELSE IF LongTest(out.bar) THEN "long"
                      ELSE IF ShortTest(out.bar) THEN "short"
                      ELSE "none"
         /\ FLt(out.bar.close, out.bar.lower) => out.ret # "short"
    /\ generate(OneBar(90, 95, FromInt(100), 105, 20, 10)) = "long"
    /\ generate(OneBar(90, 95, FromInt(100), 105, 20, 30)) = "none"
    /\ generate(OneBar(90, 95, NaN, 105, 20, 10)) = "none"

\* generate met a bar that passes the long test in a trend and returned none
C11_Witness ==
    /\ GenerateReturned
    /\ out.ret = "none"
    /\ FGe(out.bar.adx, FromInt(25))
    /\ LongTest(out.bar)

\* C12: two calls of generate on the same candle matrix return the same
\* signal, also when +DI + -DI is exactly zero at a bar of the ADX window.
C12_Deterministic == out.op = "generate" => out.ret = out.first

ShouldExitReturned == out.op = "should_exit" /\ ~out.raised

\* the trailing stop of a position entered at `entry` is hit at close c
TrailingHit(side, c, entry, atr_val) ==
    \/ side = "long" /\ FLe(c, FSub(entry, FMul(atr_mult_trailing, atr_val)))
    \/ side = "short"
       /\ FGe(c, FAdd(entry, FMul(atr_mult_trailing, atr_val)))

\* the middle band is touched from the side of the position
MidTouched(side, c, mid) ==
    \/ side = "long" /\ FGe(c, mid)
    \/ side = "short" /\ FLe(c, mid)

\* C13: should_exit returns (false, _) when the middle band or the ATR of
\* the last bar is undefined; otherwise it returns true exactly when the
\* position's side has touched the middle band or its trailing stop
\* (entry price -/+ trailing multiplier times ATR) is hit, and then the
\* exit price is the close of the last bar.
C13_ShouldExit ==
    /\ ShouldExitReturned =>
         /\ out.close = FromInt(Last(bars)[4])
         /\ IF IsNaN(out.mid) \/ IsNaN(out.atr) THEN ~out.ret.exit
            ELSE out.ret.exit =
                   (\/ MidTouched(out.side, out.close, out.mid)
                    \/ TrailingHit(out.side, out.close, out.entry_price,
                                   out.atr))
         /\ out.ret.exit => out.ret.price = out.close
    /\ \A side \in Sides :
         /\ ~should_exit(side, OneBar(90, 95, NaN, 105, 20, 10),
                         FromInt(90)).exit
         /\ ~should_exit(side, [OneBar(90, 80, FromInt(90), 100, 20, 10)
                                  EXCEPT !.atr = <<NaN>>], FromInt(90)).exit

\* a long position below the middle band is closed by its trailing stop
C13_Witness ==
    /\ ShouldExitReturned
    /\ out.side = "long"
    /\ out.ret.exit
    /\ FLt(out.close, out.mid)

(***************************************************************************)
(* Properties of the engine loop                                           *)
(***************************************************************************)
\* C14: an exception raised inside a cycle is caught at the per-cycle
\* boundary and never ends the loop: whatever happened in its cycles and in
\* the other engine's cycles, every engine starts another iteration again
\* and again
C14_LoopContinues ==
    \A e \in Symbols : /\ []<>(beat[e] = 0)
                        /\ []<>(beat[e] = 1)

\* one engine is back in its sleep after a cycle that ended in an exception
\* and starts its next iteration, while the other engine is inside a cycle
C14_Witness ==
    \E e \in Symbols : \E f \in Symbols \ {e} :
        /\ lastCycle[e] \in {"io_error", "type_error"}
        /\ pc[e] = "sleep"
        /\ beat[e] = 0
        /\ pc[f] = "close_order"

(***************************************************************************)
(* Properties of the indicator functions                                   *)
(***************************************************************************)
\* a call of that indicator function returned
IndicatorReturned(op) == out.op = op /\ ~out.raised

\* the series has the length of the input; its entries at the indices
\* 0 .. n - 1 are undefined
UndefinedPrefix(series, n) ==
    /\ Len(series) = Len(bars)
    /\ \A i \in 1..Len(series) : i <= n => IsNaN(series[i])

\* the series has exactly n undefined leading entries
ExactPrefix(series, n) ==
    /\ UndefinedPrefix(series, n)
    /\ \A i \in 1..Len(series) : i > n => Finite(series[i])

\* C15: every indicator that returns, returns a series of the length of its
\* input; the moving average, the rolling deviation and the three Bollinger
\* bands have exactly w - 1 undefined leading entries, ADX has its first 2p
\* entries undefined (and RSI and ATR their first p + 1 and p)
C15_WarmupPrefix ==
    /\ IndicatorReturned("sma") => ExactPrefix(out.ret, out.window - 1)
    /\ IndicatorReturned("std") => ExactPrefix(out.ret, out.window - 1)
    /\ IndicatorReturned("bollinger_bands") =>
           \A k \in 1..3 : ExactPrefix(out.ret[k], out.window - 1)
    /\ IndicatorReturned("adx") => UndefinedPrefix(out.ret, 2 * out.period)
    /\ IndicatorReturned("rsi") => UndefinedPrefix(out.ret, out.period + 1)
    /\ IndicatorReturned("atr") => UndefinedPrefix(out.ret, out.period)

\* bollinger_bands returned for a window of 3 on five bars: two undefined
\* entries, then three bars with bands, the last with a band width
C15_Witness ==
    /\ IndicatorReturned("bollinger_bands")
    /\ out.window = MaxWindow - 1
    /\ Len(bars) = MaxSeries
    /\ IsNaN(out.ret[2][out.window - 1])
    /\ FLt(out.ret[1][Len(bars)], out.ret[3][Len(bars)])

StrictlyIncreasing(series) ==
    \A i \in 2..Len(series) : series[i - 1] < series[i]

\* C16: on a close series longer than p + 1 bars rsi returns; the result is
\* undefined at the indices 0 .. p and lies in [0, 100] at every later index;
\* on a strictly increasing series avg_loss is 0 wherever it is defined
C16_RsiRange ==
    out.op = "rsi" /\ Len(bars) > out.period + 1 =>
        /\ ~out.raised
        /\ \A i \in 1..Len(bars) :
               IF i <= out.period + 1 THEN IsNaN(out.ret[i])
               ELSE /\ Finite(out.ret[i])
                    /\ FGe(out.ret[i], 0)
                    /\ FLe(out.ret[i], FromInt(100))
        /\ StrictlyIncreasing(CloseOf(bars)) =>
               \A i \in 1..Len(bars) :
                   i > out.period => out.avg_loss[i] = 0

\* rsi returned on a strictly increasing series longer than p + 1 bars:
\* avg_loss is 0 and the RSI of the last bar is defined and above 50
C16_Witness ==
    /\ IndicatorReturned("rsi")
    /\ Len(bars) > out.period + 1
    /\ StrictlyIncreasing(CloseOf(bars))
    /\ out.avg_loss[Len(bars)] = 0
    /\ FGt(out.ret[Len(bars)], FromInt(50))

LowBelowHigh == \A i \in 1..Len(bars) : LowOf(bars)[i] <= HighOf(bars)[i]

\* C17: on aligned series longer than p bars with low <= high, atr returns,
\* the true range is >= 0 at every bar and the ATR is >= 0 wherever it is
\* defined
C17_AtrNonNegative ==
    out.op = "atr" /\ Len(bars) > out.period /\ LowBelowHigh =>
        /\ ~out.raised
        /\ \A i \in 1..Len(bars) :
               /\ FGe(out.tr[i], 0)
               /\ ~IsNaN(out.ret[i]) => FGe(out.ret[i], 0)

\* atr returned on a series whose last close before the end lay above the
\* high of the last bar, and the smoothed ATR is positive
C17_Witness ==
    /\ IndicatorReturned("atr")
    /\ Len(bars) > out.period + 1
    /\ CloseOf(bars)[Len(bars) - 1] > HighOf(bars)[Len(bars)]
    /\ FGt(out.ret[Len(bars)], 0)

(***************************************************************************)
(* Properties of the engine's cycles                                       *)
(***************************************************************************)
\* C18: in every cycle in which the engine holds a Position, should_exit is
\* evaluated, whatever generate returned and whether or not trading is
\* allowed: no cycle leaves an exit that would have triggered unevaluated
C18_ExitCheckedEveryCycle ==
    \A e \in Symbols : lastCycle[e] # "exit_unchecked"

\* _open_position goes on after wallet_balance returned
AfterBalance(e) ==
    /\ pc[e] = "balance"
    /\ pc'[e] # "balance"
    /\ lastCycle'[e] # "io_error"

\* the market order of the entry was handed to create_order with the risk
\* reserved
EntryHandedOver(e) ==
    /\ pc'[e] = "open_order"
    /\ lastOrder'[e].kind = "entry"
    /\ ctx'[e].risk > 0
    /\ rg'.unrealized_risk >= ctx'[e].risk

\* the cycle returned without order, without reservation and FLAT
StayedFlat(e) ==
    /\ pc'[e] = "sleep"
    /\ lastCycle'[e] = "ok"
    /\ lastOrder'[e] = lastOrder[e]
    /\ position'[e] = NoPosition
    /\ rg'.unrealized_risk <= rg.unrealized_risk

\* C19: a FLAT engine with enough candles, an entry signal and trading
\* allowed ends _open_position in one of the stated outcomes: the rounded
\* quantity is > 0 and the risk is allocated, then the market order is
\* submitted and, once create_order returned, the Position is held; or the
\* quantity is <= 0 or the allocation is refused, then the cycle returns with
\* no order, nothing reserved and the engine FLAT. No order is submitted
\* with fewer than the minimum of candles. (Exchange calls that raise are
\* set aside.)
C19_EntryOutcomes ==
    [][\A e \in Symbols :
          /\ AfterBalance(e) => EntryHandedOver(e) \/ StayedFlat(e)
          /\ (/\ pc[e] = "open_order"
              /\ pc'[e] # "open_order"
              /\ lastCycle'[e] # "io_error") => position'[e] # NoPosition
          /\ lastOrder'[e] # lastOrder[e] =>
                 Len(candles'[e]) >= MinCandles]_vars

(***************************************************************************)
(* Properties of the engine's use of the strategy                          *)
(***************************************************************************)
\* C20: the close, high and low the strategy evaluates for the last candle
\* the engine built are that candle's close, high and low fields; so the
\* close compared with the bands and returned by should_exit as the exit
\* price is the close the engine records as entry_price
C20_StrategyReadsCandle ==
    \A s \in Symbols :
        candles[s] # <<>> =>
            LET c == LastCandle(candles[s])
            IN  /\ Last(CloseOf(candles[s])) = FromInt(c[5])
                /\ Last(HighOf(candles[s])) = FromInt(c[3])
                /\ Last(LowOf(candles[s])) = FromInt(c[4])

(***************************************************************************)
(* Properties of the strategy on short series                              *)
(***************************************************************************)
\* C21: insufficient warm-up data is never raised as an error: on a candle
\* series of any length >= 1 a call of generate or of should_exit returns,
\* and on a series shorter than the Bollinger window generate returns none
\* and should_exit returns no exit
C21_NoRaiseOnShortSeries ==
    /\ out.op = "generate" =>
           /\ out.ret # "raise"
           /\ Len(bars) < window_bb => out.ret = "none"
    /\ out.op = "should_exit" =>
           /\ ~out.raised
           /\ Len(bars) < window_bb => ~out.ret.exit

(***************************************************************************)
(* Properties of the risk reservation over a position's life               *)
(***************************************************************************)
\* _close_position went on after create_order returned and called
\* register_trade
CloseRegistered(e) == pc[e] = "close_order" /\ pc'[e] = "close_notify"

\* C22: closing a position releases its risk reservation: when an engine
\* that closes a position calls register_trade, the amount it reserved at
\* entry is taken out of unrealized_risk (floored at 0, after the day check)
C22_CloseReleasesRisk ==
    [][\A e \in Symbols :
          CloseRegistered(e) =>
              rg'.unrealized_risk =
                  Max(check_new_day(rg, today).unrealized_risk - reserved[e],
                      0)]_vars

\* create_order raised in _open_position, in _close_position
EntryFailed(e) ==
    /\ pc[e] = "open_order"
    /\ pc'[e] = "sleep"
    /\ lastCycle'[e] = "io_error"
CloseFailed(e) ==
    /\ pc[e] = "close_order"
    /\ pc'[e] = "sleep"
    /\ lastCycle'[e] = "io_error"

\* C23: a cycle whose order submission fails leaves the trading state as it
\* was before the cycle. After a failed entry the engine is FLAT, trades and
\* realized are untouched and unrealized_risk no longer counts what the
\* cycle reserved (stated for the first day, on which the ledger was not
\* reset in between); after a failed close the Position is still held and
\* the ledger is unchanged, register_trade not having been called
C23_FailedOrderLeavesState ==
    [][\A e \in Symbols :
          /\ EntryFailed(e) =>
                 /\ position'[e] = NoPosition
                 /\ rg'.trades = rg.trades
                 /\ rg'.realized = rg.realized
                 /\ today = 0 =>
                        rg'.unrealized_risk =
                            rg.unrealized_risk - ctx[e].risk
          /\ CloseFailed(e) =>
                 /\ position'[e] = position[e]
                 /\ position'[e] # NoPosition
                 /\ rg' = rg]_vars

RECURSIVE SumReserved(_)
SumReserved(S) ==
    IF S = {} THEN 0
    ELSE LET e == CHOOSE x \in S : TRUE
         IN  reserved[e] + SumReserved(S \ {e})

\* the engines that hold a Position
OpenPositions == {e \in Symbols : position[e] # NoPosition}

\* C24: in every reachable state, also after a date rollover during which
\* engines hold positions, the risk amounts reserved at entry by the open
\* positions of all engines sum to at most max_total_risk
C24_OpenRiskWithinCeiling == SumReserved(OpenPositions) <= max_total_risk

====
